---- MODULE Spec2Model ----
(***************************************************************************)
(* A model of delay.py: the DelaySim orchestrator (state store, command     *)
(* executor, setup / teardown, IRQ planner, bitmask calculator) and the     *)
(* part of main() that drives it, one invocation per interface group.      *)
(*                                                                         *)
(* Text is modelled as a sequence of atoms (short strings): a command line, *)
(* a line of /proc/interrupts, the JSON text of the state file.  " " and    *)
(* ":" and "'" are atoms of their own, so str.split, str.strip, str.replace *)
(* and the substring test act on the text as the code's do.                *)
(***************************************************************************)
EXTENDS Integers, Sequences, FiniteSets, TLC

VARIABLES
    state_file,   \* the state file: its JSON text, or missing
    devices,      \* the bridge devices that exist on the host (their names)
    interrupts,   \* the lines of /proc/interrupts
    sims,         \* per invocation: the DelaySim object and main()'s position
    twin,         \* the invocations of a show-only run, as a real run whose
                  \* commands all succeed makes them
    calc,         \* the bitmask calculator: a core and what it returned
    history       \* of the host's bridges, the group whose setup created each;
                  \* of the state file, the entries setups saved; and whether
                  \* two invocations ever overlapped

vars == <<state_file, devices, interrupts, sims, twin, calc, history>>

(***************************************************************************)
(* Bounds of the model.                                                    *)
(***************************************************************************)
\* random.randint(10, 100000) is drawn from BridgeIdMin..MaxBridgeId
MaxBridgeId == 11
\* the bitmask calculator is applied to the cores 0..MaxCore
MaxCore == 70
\* /proc/interrupts holds at most this many lines
MaxLines == 3

BridgeIdMin == 10
CoreLimit == 64

\* the state file: missing, or present with a text
NoFile == [exists |-> FALSE, text |-> <<>>]
FileOf(text) == [exists |-> TRUE, text |-> text]
Procs == {1, 2}

(***************************************************************************)
(* Text helpers: Python's str methods on sequences of atoms.               *)
(***************************************************************************)
DecDigits == <<"0", "1", "2", "3", "4", "5", "6", "7", "8", "9">>
HexDigits == DecDigits \o <<"a", "b", "c", "d", "e", "f">>

RECURSIVE IntToStr(_)
\* '{}'.format(n) / str(n) of a non-negative integer
IntToStr(n) ==
    IF n < 10 THEN <<DecDigits[n + 1]>>
    ELSE IntToStr(n \div 10) \o <<DecDigits[(n % 10) + 1]>>

DigitValue(c) == (CHOOSE i \in 1..10 : DecDigits[i] = c) - 1

RECURSIVE StrToInt(_)
\* int(s) of a non-empty sequence of decimal digits
StrToInt(s) ==
    IF Len(s) = 1 THEN DigitValue(s[1])
    ELSE 10 * StrToInt(SubSeq(s, 1, Len(s) - 1)) + DigitValue(s[Len(s)])

RECURSIVE Split(_, _)
\* s.split(sep): the pieces between the occurrences of the atom sep
Split(s, sep) ==
    IF \A i \in 1..Len(s) : s[i] # sep THEN <<s>>
    ELSE LET i == CHOOSE j \in 1..Len(s) :
                      s[j] = sep /\ \A k \in 1..(j - 1) : s[k] # sep
         IN <<SubSeq(s, 1, i - 1)>> \o Split(SubSeq(s, i + 1, Len(s)), sep)

RECURSIVE Join(_, _)
\* sep.join(parts)
Join(sep, parts) ==
    IF Len(parts) = 0 THEN <<>>
    ELSE IF Len(parts) = 1 THEN parts[1]
    ELSE parts[1] \o sep \o Join(sep, Tail(parts))

\* s.replace(a, ''): every occurrence of the atom a removed
Remove(s, a) == SelectSeq(s, LAMBDA c : c # a)

IsSpace(c) == c \in {" ", "\n"}

RECURSIVE Strip(_)
\* s.strip(): leading and trailing whitespace removed
Strip(s) ==
    IF Len(s) = 0 THEN s
    ELSE IF IsSpace(s[1]) THEN Strip(Tail(s))
    ELSE IF IsSpace(s[Len(s)]) THEN Strip(SubSeq(s, 1, Len(s) - 1))
    ELSE s

\* `sub in s`: sub occurs in s as a contiguous run
Contains(s, sub) ==
    \E i \in 0..(Len(s) - Len(sub)) : SubSeq(s, i + 1, i + Len(sub)) = sub

\* s.rjust(width, fill)
RJust(s, width, fill) ==
    [i \in 1..(IF width > Len(s) THEN width - Len(s) ELSE 0) |-> fill] \o s

\* s[a:b] with 0 <= a <= b (Python's slice, which stops at the end of s)
Slice(s, a, b) == SubSeq(s, a + 1, IF b > Len(s) THEN Len(s) ELSE b)

(***************************************************************************)
(* Bitmask calculator.  1 << core does not fit a machine word for the      *)
(* cores of interest, so the integer is kept as its base-16 digits, least  *)
(* significant first, and shifted one bit at a time.                       *)
(***************************************************************************)
RECURSIVE Double(_, _)
\* 2 * x + carry on base-16 digits, least significant first
Double(x, carry) ==
    IF Len(x) = 0 THEN (IF carry = 0 THEN <<>> ELSE <<carry>>)
    ELSE LET v == 2 * x[1] + carry
         IN <<v % 16>> \o Double(Tail(x), v \div 16)

RECURSIVE ShiftLeft(_, _)
\* x << k: four bits at a time are one more base-16 digit, then bit by bit
ShiftLeft(x, k) ==
    IF k = 0 THEN x
    ELSE IF k >= 4 THEN ShiftLeft(<<0>> \o x, k - 4)
    ELSE ShiftLeft(Double(x, 0), k - 1)

\* hex(x): "0x" and the lowercase digits, most significant first
Hex(x) ==
    <<"0", "x">> \o [i \in 1..Len(x) |-> HexDigits[x[Len(x) + 1 - i] + 1]]

\* the outcome of a call: a value returned, or an exception raised
Returned(v) == [exc |-> "none", value |-> v]
Raise(e) == [exc |-> e]

\* the calculator without its `core > 64` test
corenum_to_bitmask_unchecked(core) ==
    LET hexed == Hex(ShiftLeft(<<1>>, core))
        bitmask == Slice(hexed, 2, Len(hexed))
    IN IF Len(bitmask) < 9
       THEN Returned([i \in 1..8 |-> "0"] \o <<",">> \o RJust(bitmask, 8, "0"))
       ELSE LET padded == RJust(bitmask, 16, "0")
            IN Returned(Slice(padded, 0, 8) \o <<",">> \o Slice(padded, 8, 16))

corenum_to_bitmask(core) ==
    IF core > CoreLimit THEN Raise("NotImplementedError")
    ELSE LET hexed == Hex(ShiftLeft(<<1>>, core))
             bitmask == Slice(hexed, 2, Len(hexed))
         IN IF Len(bitmask) < 9
            THEN Returned([i \in 1..8 |-> "0"] \o <<",">> \o RJust(bitmask, 8, "0"))
            ELSE LET padded == RJust(bitmask, 16, "0")
                 IN Returned(Slice(padded, 0, 8) \o <<",">> \o Slice(padded, 8, 16))

(***************************************************************************)
(* The configuration main() reads (delay.yml): two interface groups and    *)
(* the kernel tweaks.  A string is its atoms.                              *)
(***************************************************************************)
interface_groups ==
    << [members |-> << [name |-> "nic0", cores |-> << <<"tx", 63>>, <<"rx", 0>> >>],
                       [name |-> "nic1", cores |-> << <<"tx", 31>>, <<"rx", 62>> >>] >>,
        delay |-> <<"10ms">>,
        queue_count |-> 2],
       [members |-> << [name |-> "nic2", cores |-> << <<"rx", 5>> >>] >>,
        delay |-> <<"25ms">>,
        queue_count |-> 1] >>

kernel_tweaks ==
    << [key |-> <<"net", ".", "core", ".", "rmem_max">>, value |-> <<"16777216">>],
       [key |-> <<"net", ".", "ipv4", ".", "tcp_rmem">>,
        value |-> <<"4096", " ", "87380", " ", "16777216">>] >>

\* list(members.keys())
interface_list(group) ==
    [i \in 1..Len(interface_groups[group].members) |->
        interface_groups[group].members[i].name]

RECURSIVE core_mapping_of(_)
\* the dict main() builds: '{}-{}'.format(interface, suffix) -> core, in
\* insertion order, as a sequence of [key, core]
core_mapping_of(members) ==
    IF Len(members) = 0 THEN <<>>
    ELSE [j \in 1..Len(members[1].cores) |->
             [key |-> <<members[1].name, "-", members[1].cores[j][1]>>,
              core |-> members[1].cores[j][2]]]
         \o core_mapping_of(Tail(members))

\* every interface the configuration names, in configuration order
AllInterfaces == interface_list(1) \o interface_list(2)

Range(s) == {s[i] : i \in 1..Len(s)}

(***************************************************************************)
(* State store.  The in-memory state is a dict interface -> bridge id (a   *)
(* function); the file holds its JSON text.                                *)
(***************************************************************************)
EmptyDict == [k \in {} |-> 0]

DictKeys(d) == SelectSeq(AllInterfaces, LAMBDA k : k \in DOMAIN d)

\* dict.pop(k, None)
Pop(d, k) == [j \in (DOMAIN d) \ {k} |-> d[j]]

\* d[k] = v
Put(d, k, v) == [j \in (DOMAIN d) \cup {k} |-> IF j = k THEN v ELSE d[j]]

\* str(d) written in place of json.dumps(d): {'a': 1, 'b': 2}
json_dumps_as_str(d) ==
    <<"{">>
    \o Join(<<",", " ">>,
            [i \in 1..Len(DictKeys(d)) |->
                <<"'", DictKeys(d)[i], "'", ":", " ">> \o IntToStr(d[DictKeys(d)[i]])])
    \o <<"}">>

\* json.dumps(d) of a dict of str -> int: {"a": 1, "b": 2}
json_dumps(d) ==
    <<"{">>
    \o Join(<<",", " ">>,
            [i \in 1..Len(DictKeys(d)) |->
                <<"\"", DictKeys(d)[i], "\"", ":", " ">> \o IntToStr(d[DictKeys(d)[i]])])
    \o <<"}">>

RECURSIVE json_items(_)
\* the parsed items of the text between the braces, later items winning
json_items(parts) ==
    IF Len(parts) = 0 THEN EmptyDict
    ELSE LET kv == Split(parts[Len(parts)], ":")
             key == Remove(Strip(kv[1]), "\"")[1]
             val == StrToInt(Strip(kv[2]))
         IN (key :> val) @@ json_items(SubSeq(parts, 1, Len(parts) - 1))

\* json.loads(text) of a flat object of str -> int
json_loads(text) ==
    LET inner == Strip(SubSeq(Strip(text), 2, Len(Strip(text)) - 1))
    IN IF Len(inner) = 0 THEN EmptyDict ELSE json_items(Split(inner, ","))

(***************************************************************************)
(* The DelaySim object, and the machine a method runs on: the object, the  *)
(* host's bridge devices and the state file.  An exception raised and not  *)
(* yet caught is self.exc; every statement is skipped while one is pending.*)
(* Whether an external command exits 0, and whether a write to a           *)
(* pseudo-file succeeds, is the host's choice: a statement yields the set  *)
(* of machines it can leave, and a method the set of its outcomes.  On a   *)
(* host without faults every command succeeds.                             *)
(***************************************************************************)
IdleSim ==
    [pc |-> "idle", interfaces |-> <<>>, interface_core_mapping |-> <<>>,
     delay |-> <<>>, queues_per_interface |-> 0, state |-> EmptyDict,
     show_only |-> FALSE, verbose |-> FALSE, force |-> FALSE,
     drawn |-> 0, acted |-> "none", irq_mode |-> "none", interface_irq |-> <<>>,
     plan |-> <<>>, trace |-> <<>>, exc |-> "none"]

Machine(self, devs, file, faults) ==
    [self |-> self, devices |-> devs, state_file |-> file, faults |-> faults]

Raised(m) == m.self.exc # "none"
Throw(m, e) == [m EXCEPT !.self.exc = e]
Log(m, event) == [m EXCEPT !.self.trace = Append(@, event)]

\* `except ValueError as e: print('Warning: ...')`
ExceptValueError(m, warning) ==
    IF m.self.exc = "ValueError"
    THEN Log([m EXCEPT !.self.exc = "none"], [ev |-> "warning", what |-> warning])
    ELSE m

\* ' '.join of the words of a command line
Sp(words) == Join(<<" ">>, words)

\* 'br{}'.format(bridge_id)
BridgeName(bridge_id) == <<"br">> \o IntToStr(bridge_id)

\* what a command that exits 0 does to the host's bridge devices
HostEffect(command_list, devs) ==
    IF Len(command_list) >= 3 /\ command_list[1] = <<"brctl">>
    THEN IF command_list[2] = <<"addbr">> THEN devs \cup {command_list[3]}
         ELSE IF command_list[2] = <<"delbr">> THEN devs \ {command_list[3]}
         ELSE devs
    ELSE devs

\* get_bridge_id without the check of len(bridge_list): one identifier is picked
get_bridge_id_silent_pick(self) ==
    Returned(CHOOSE b \in {self.state[idx] : idx \in Range(self.interfaces)} : TRUE)

get_bridge_id(self) ==
    LET bridge_list == {self.state[idx] : idx \in Range(self.interfaces)}
    IN IF Cardinality(bridge_list) > 1 THEN Raise("SystemExit")
       ELSE Returned(CHOOSE b \in bridge_list : TRUE)

\* the event of one call of process_external_command
Exec(self, cmd, how, ok) ==
    [ev |-> "exec", cmd |-> cmd, printed |-> self.show_only \/ self.verbose,
     how |-> how, ok |-> ok]

\* the else branch: the pseudo-file written, or the external process run
RunCommand(m, cmd) ==
    LET command_list == Split(cmd, " ")
    IN IF command_list[1] = <<"echo">>
       THEN IF Len(command_list) < 4 THEN {Throw(m, "IndexError")}
            ELSE {Log(m, Exec(m.self, cmd, "write", TRUE)
                         @@ [path |-> command_list[4],
                             content |-> Remove(command_list[2], "'")])}
                 \cup (IF m.faults
                       THEN {Throw(Log(m, Exec(m.self, cmd, "write", FALSE)
                                          @@ [path |-> command_list[4]]),
                                   "OSError")}
                       ELSE {})
       ELSE {[Log(m, Exec(m.self, cmd, "run", TRUE))
                 EXCEPT !.devices = HostEffect(command_list, @)]}
            \cup (IF m.faults
                  THEN {Throw(Log(m, Exec(m.self, cmd, "run", FALSE)), "ValueError")}
                  ELSE {})

\* show-only taken for verbose: the command is printed, then run
EchoCommand_then_runs(m, cmd) == RunCommand(m, cmd)

\* `if self.show_only: print(cmd)`
EchoCommand(m, cmd) == {Log(m, Exec(m.self, cmd, "none", TRUE))}

process_external_command(m, cmd) ==
    IF Raised(m) THEN {m}
    ELSE IF m.self.show_only THEN EchoCommand(m, cmd)
    ELSE RunCommand(m, cmd)

\* the statement `self.process_external_command(cmd)` on each of the machines M
Then(M, cmd) == UNION {process_external_command(m, cmd) : m \in M}

RECURSIVE ForEach(_, _)
\* `for cmd in cmds: self.process_external_command(cmd)`
ForEach(M, cmds) ==
    IF Len(cmds) = 0 THEN M ELSE ForEach(Then(M, cmds[1]), Tail(cmds))

\* the command without its try: a failure leaves the method
TryCommand_uncaught(M, cmd, warning) == Then(M, cmd)

\* `try: self.process_external_command(cmd)` / `except ValueError`
TryCommand(M, cmd, warning) ==
    UNION {IF Raised(m) THEN {m}
           ELSE {ExceptValueError(x, warning) : x \in process_external_command(m, cmd)}
           : m \in M}

\* the try around the loop instead of in it
ForEachTry_stops_at_failure(M, cmds, warning) ==
    UNION {IF Raised(m) THEN {m}
           ELSE {ExceptValueError(x, warning) : x \in ForEach({m}, cmds)}
           : m \in M}

RECURSIVE ForEachTry(_, _, _)
\* a loop whose body is the try: a failure is caught and the loop goes on
ForEachTry(M, cmds, warning) ==
    IF Len(cmds) = 0 THEN M
    ELSE ForEachTry(TryCommand(M, cmds[1], warning), Tail(cmds), warning)

\* a try around the whole loop: the first failure ends the loop
TryForEach(M, cmds, warning) ==
    UNION {IF Raised(m) THEN {m}
           ELSE {ExceptValueError(x, warning) : x \in ForEach({m}, cmds)}
           : m \in M}

\* save_state writing the entries of the object's own members only
save_state_own_entries(m) ==
    IF Raised(m) THEN m
    ELSE LET state_string ==
                 json_dumps([k \in DOMAIN m.self.state \cap Range(m.self.interfaces)
                                |-> m.self.state[k]])
         IN [Log(m, [ev |-> "save", content |-> state_string])
                EXCEPT !.state_file = FileOf(state_string)]

save_state(m) ==
    IF Raised(m) THEN m
    ELSE LET state_string == json_dumps(m.self.state)
         IN [Log(m, [ev |-> "save", content |-> state_string])
                EXCEPT !.state_file = FileOf(state_string)]

RECURSIVE PopAll(_, _)
PopAll(d, keys) == IF Len(keys) = 0 THEN d ELSE PopAll(Pop(d, keys[1]), Tail(keys))

\* delete_state run although a command failed (as from a `finally`)
delete_state_despite_failure(m) ==
    LET popped == PopAll(m.self.state, m.self.interfaces)
    IN [Log([m EXCEPT !.self.state = popped],
            [ev |-> "save", content |-> json_dumps(popped)])
           EXCEPT !.state_file = FileOf(json_dumps(popped))]

\* delete_state with `self.state.clear()` for the loop of pops
delete_state_clears_all(m) ==
    IF Raised(m) THEN m
    ELSE save_state([m EXCEPT !.self.state = EmptyDict])

delete_state(m) ==
    IF Raised(m) THEN m
    ELSE save_state([m EXCEPT !.self.state = PopAll(@, m.self.interfaces)])

RECURSIVE AssignMissing_overwrites(_, _, _)
\* the assignment made to every member, without the `is None` test
AssignMissing_overwrites(d, keys, bridge_id) ==
    IF Len(keys) = 0 THEN d
    ELSE AssignMissing_overwrites(Put(d, keys[1], bridge_id), Tail(keys), bridge_id)

RECURSIVE AssignMissing(_, _, _)
\* `for interface in self.interfaces: if self.state.get(interface) is None: ...`
AssignMissing(d, keys, bridge_id) ==
    IF Len(keys) = 0 THEN d
    ELSE AssignMissing(IF keys[1] \in DOMAIN d THEN d ELSE Put(d, keys[1], bridge_id),
                       Tail(keys), bridge_id)

\* read_state that starts from an empty dict whatever the file holds
read_state_ignores_file(self, file, bridge_id) ==
    [self EXCEPT !.state = AssignMissing(EmptyDict, self.interfaces, bridge_id),
                 !.drawn = bridge_id]

\* read_state, with bridge_id the value random.randint returns
read_state(self, file, bridge_id) ==
    LET loaded == IF file.exists THEN json_loads(file.text) ELSE EmptyDict
    IN [self EXCEPT !.state = AssignMissing(loaded, self.interfaces, bridge_id),
                    !.drawn = bridge_id]

(***************************************************************************)
(* The command lines of setup and teardown.                                *)
(***************************************************************************)
KillIrqbalance == Sp(<< <<"killall">>, <<"irqbalance">> >>)
IfUp(hw_interface) ==
    Sp(<< <<"ifconfig">>, <<hw_interface>>, <<"0.0.0.0">>, <<"promisc">>, <<"up">> >>)
IfDown(hw_interface) == Sp(<< <<"ifconfig">>, <<hw_interface>>, <<"down">> >>)
AddBr(bridge_id) == Sp(<< <<"brctl">>, <<"addbr">>, BridgeName(bridge_id) >>)
DelBr(bridge_id) == Sp(<< <<"brctl">>, <<"delbr">>, BridgeName(bridge_id) >>)
AddIf(bridge_id, hw_interface) ==
    Sp(<< <<"brctl">>, <<"addif">>, BridgeName(bridge_id), <<hw_interface>> >>)
BrUp(bridge_id) == Sp(<< <<"ifconfig">>, BridgeName(bridge_id), <<"up">> >>)
BrDown(bridge_id) == Sp(<< <<"ifconfig">>, BridgeName(bridge_id), <<"down">> >>)
Governor == Sp(<< <<"cpufreq-set">>, <<"-r">>, <<"-g">>, <<"performance">> >>)
\* "echo '{}' > /proc/sys/{}".format(value, '/'.join(tweak.split('.')))
Tweak(tweak) ==
    <<"echo", " ", "'">> \o tweak.value \o <<"'", " ", ">", " ", "/proc/sys/">>
    \o Join(<<"/">>, Split(tweak.key, "."))
TcAdd(hw_interface, queue, delay) ==
    Sp(<< <<"tc">>, <<"qdisc">>, <<"add">>, <<"dev">>, <<hw_interface>>, <<"parent">>,
          <<":">> \o IntToStr(queue), <<"netem">>, <<"delay">>, delay,
          <<"limit">>, <<"100000">> >>)
TcDel(hw_interface, queue, delay) ==
    Sp(<< <<"tc">>, <<"qdisc">>, <<"del">>, <<"dev">>, <<hw_interface>>, <<"parent">>,
          <<":">> \o IntToStr(queue), <<"netem">>, <<"delay">>, delay,
          <<"limit">>, <<"1000000">> >>)

\* the pairs with `range(0, queues)`: the queues 0..k-1
QueuePairs_from_zero(self) ==
    [i \in 1..(Len(self.interfaces) * self.queues_per_interface) |->
        [hw_interface |-> self.interfaces[((i - 1) \div self.queues_per_interface) + 1],
         queue |-> (i - 1) % self.queues_per_interface]]

\* `for interface in self.interfaces: for queue in range(1, queues + 1)`: the
\* (interface, queue) pairs in the order the nested loops visit them
QueuePairs(self) ==
    [i \in 1..(Len(self.interfaces) * self.queues_per_interface) |->
        [hw_interface |-> self.interfaces[((i - 1) \div self.queues_per_interface) + 1],
         queue |-> ((i - 1) % self.queues_per_interface) + 1]]

(***************************************************************************)
(* Group lifecycle orchestrator.                                           *)
(***************************************************************************)
\* is_setup_done: the machine after the probe `ifconfig br<id>`, and its answer
is_setup_done(m) ==
    LET bridge_id == get_bridge_id(m.self)
    IN IF bridge_id.exc # "none"
       THEN [m |-> Throw(m, bridge_id.exc), response |-> FALSE]
       ELSE LET name == BridgeName(bridge_id.value)
                response == name \in m.devices
            IN [m |-> Log(m, [ev |-> "probe", cmd |-> Sp(<< <<"ifconfig">>, name >>),
                              ok |-> response]),
                response |-> response]

\* the guard of setup with the test of force inverted
SetupReturnsEarly_force_inverted(response, force) == response /\ force

\* `if self.is_setup_done(): ... if self.force is False: return`
SetupReturnsEarly(response, force) == response /\ ~force

\* `if self.is_setup_done() is False: ... if self.force is False: return`
TeardownReturnsEarly(response, force) == ~response /\ ~force

\* the outcomes of initial_setup
initial_setup(m) ==
    LET probe == is_setup_done(m)
    IN IF Raised(probe.m) THEN {probe.m}
       ELSE IF SetupReturnsEarly(probe.response, m.self.force) THEN {probe.m}
       ELSE
       LET self == m.self
           bridge_id == get_bridge_id(self).value
           pairs == QueuePairs(self)
           M1 == TryCommand({probe.m}, KillIrqbalance, "irqbalance")
           M2 == ForEach(M1, [i \in 1..Len(self.interfaces) |-> IfUp(self.interfaces[i])])
           M3 == Then(M2, AddBr(bridge_id))
           M4 == ForEach(M3, [i \in 1..Len(self.interfaces) |->
                                 AddIf(bridge_id, self.interfaces[i])])
           M5 == Then(M4, BrUp(bridge_id))
           M6 == Then(M5, Governor)
           M7 == ForEach(M6, [i \in 1..Len(kernel_tweaks) |-> Tweak(kernel_tweaks[i])])
           M8 == TryForEach(M7, [i \in 1..Len(pairs) |->
                                    TcAdd(pairs[i].hw_interface, pairs[i].queue,
                                          self.delay)],
                            "tc add")
       IN {save_state(m8) : m8 \in M8}

\* the outcomes of teardown_setup
teardown_setup(m) ==
    LET probe == is_setup_done(m)
    IN IF Raised(probe.m) THEN {probe.m}
       ELSE IF TeardownReturnsEarly(probe.response, m.self.force) THEN {probe.m}
       ELSE
       LET self == m.self
           bridge_id == get_bridge_id(self).value
           pairs == QueuePairs(self)
           M1 == ForEach({probe.m}, [i \in 1..Len(self.interfaces) |->
                                        IfDown(self.interfaces[i])])
           M2 == ForEachTry(M1, [i \in 1..Len(pairs) |->
                                    TcDel(pairs[i].hw_interface, pairs[i].queue,
                                          self.delay)],
                            "tc del")
           M3 == Then(M2, BrDown(bridge_id))
           M4 == Then(M3, DelBr(bridge_id))
       IN {delete_state(m4) : m4 \in M4}

(***************************************************************************)
(* IRQ affinity planner.                                                   *)
(***************************************************************************)
\* the first key of the mapping, in its order, among those found in the line
FirstHit_last(hits) == CHOOSE j \in hits : \A k \in hits : k <= j

FirstHit(hits) == CHOOSE j \in hits : \A k \in hits : j <= k

\* "echo '{}' > /proc/irq/{}/smp_affinity".format(bitmask, irq)
SetAffinity(bitmask, irq) ==
    <<"echo", " ", "'">> \o bitmask \o <<"'", " ", ">", " ", "/proc/irq/">> \o irq
    \o <<"/smp_affinity">>

\* "cat /proc/irq/{}/smp_affinity".format(irq)
CatAffinity(irq) == <<"cat", " ", "/proc/irq/">> \o irq \o <<"/smp_affinity">>

\* the body of `for line in file`, on one machine
ScanLine(m, line, configure, show_existing) ==
    IF Raised(m) THEN {m}
    ELSE
    LET mapping == m.self.interface_core_mapping
        hits == {j \in 1..Len(mapping) : Contains(line, mapping[j].key)}
    IN IF hits = {} THEN {m}
       ELSE
       LET j == FirstHit(hits)
           elements == Split(Strip(line), ":")
           core == mapping[j].core
           counter == m.self.interface_irq[j]
           bitmask == corenum_to_bitmask(core + counter)
       IN IF Len(elements) < 2 THEN {Throw(m, "ValueError")}
          ELSE IF bitmask.exc # "none" THEN {Throw(m, bitmask.exc)}
          ELSE
          LET planned == [m EXCEPT !.self.plan =
                             Append(@, [interface |-> mapping[j].key, counter |-> counter,
                                        irq |-> elements[1], core |-> core + counter,
                                        bitmask |-> bitmask.value])]
              out == IF show_existing
                     THEN {Log(planned, [ev |-> "print", cmd |-> CatAffinity(elements[1])])}
                     ELSE IF configure
                     THEN process_external_command(planned,
                              SetAffinity(bitmask.value, elements[1]))
                     ELSE {Log(planned, [ev |-> "report", interface |-> mapping[j].key,
                                         counter |-> counter, irq |-> elements[1],
                                         core |-> core + counter,
                                         bitmask |-> bitmask.value])}
          IN {IF Raised(x) THEN x ELSE [x EXCEPT !.self.interface_irq[j] = @ + 1]
              : x \in out}

RECURSIVE ScanLines(_, _, _, _)
ScanLines(M, lines, configure, show_existing) ==
    IF Len(lines) = 0 THEN M
    ELSE ScanLines(UNION {ScanLine(m, lines[1], configure, show_existing) : m \in M},
                   Tail(lines), configure, show_existing)

\* the outcomes of process_irq_values on the lines of /proc/interrupts
process_irq_values(m, lines, configure, show_existing) ==
    ScanLines({[m EXCEPT !.self.interface_irq =
                    [j \in 1..Len(m.self.interface_core_mapping) |-> 0],
                         !.self.plan = <<>>]},
              lines, configure, show_existing)

(***************************************************************************)
(* The inputs of the model.                                                *)
(***************************************************************************)
BridgeIds == BridgeIdMin..MaxBridgeId

\* the state files: none, or the JSON text of a dict over the interfaces
StateFiles ==
    {NoFile} \cup
    {FileOf(json_dumps(d)) :
        d \in UNION {[K -> BridgeIds] : K \in SUBSET Range(AllInterfaces)}}

\* lines of /proc/interrupts: of one tracked queue, of two, of none, and one
\* without a colon
InterruptLines ==
    { <<" ", "120", ":", " ", "nic0", "-", "tx", "-", "0", "\n">>,
      <<"121", ":", " ", "nic0", "-", "rx", ",", " ", "nic0", "-", "tx", "\n">>,
      <<"122", ":", " ", "nic1", "-", "tx", "\n">>,
      <<"123", ":", " ", "nic2", "-", "rx", "\n">>,
      <<"NMI", ":", " ", "0", "\n">>,
      <<" ", "nic2", "-", "rx", "\n">> }

InterruptTables == UNION {[1..n -> InterruptLines] : n \in 0..MaxLines}

\* the table of the specifications that do not vary it
SomeInterrupts ==
    << <<"121", ":", " ", "nic0", "-", "rx", ",", " ", "nic0", "-", "tx", "\n">>,
       <<"123", ":", " ", "nic2", "-", "rx", "\n">> >>

(***************************************************************************)
(* Actions: one invocation of main() per process, for one group.           *)
(***************************************************************************)
\* DelaySim(...), set_show, set_verbose, set_force
NewSim(group, show, verbose, force, file, bridge_id) ==
    [read_state([IdleSim EXCEPT !.pc = "ready",
                                !.interfaces = interface_list(group),
                                !.interface_core_mapping =
                                    core_mapping_of(interface_groups[group].members),
                                !.delay = interface_groups[group].delay,
                                !.queues_per_interface =
                                    interface_groups[group].queue_count],
                file, bridge_id)
        EXCEPT !.show_only = show, !.verbose = verbose, !.force = force]

\* the object after a method returned or raised
After(self, acted) ==
    [self EXCEPT !.pc = IF self.exc = "none" THEN "acted" ELSE "crashed",
                 !.acted = acted]

AfterIrq(self, mode) ==
    [self EXCEPT !.pc = IF self.exc = "none" THEN "planned" ELSE "crashed",
                 !.irq_mode = mode]

\* main() calls process_irq_values(False, False) then (False, True) for --output,
\* then (True) for --irq unless --teardown
IrqMode(configure, show_existing) ==
    IF show_existing THEN "show_existing" ELSE IF configure THEN "apply" ELSE "report"

MayPlan(self, configure, show_existing) ==
    /\ self.pc \in {"ready", "acted", "planned"}
    /\ ~(configure /\ show_existing)
    /\ IrqMode(configure, show_existing) = "report" => self.irq_mode = "none"
    /\ IrqMode(configure, show_existing) = "show_existing" => self.irq_mode = "report"
    /\ IrqMode(configure, show_existing) = "apply" =>
          self.irq_mode \in {"none", "show_existing"} /\ self.acted # "teardown"

\* the bridges of the host after a call, each with the group whose setup
\* created it and whether that setup ran to its save_state
Owners(owner, m) ==
    [b \in m.devices |->
        IF b \in DOMAIN owner THEN owner[b]
        ELSE [interfaces |-> m.self.interfaces,
              completed |-> \E i \in 1..Len(m.self.trace) : m.self.trace[i].ev = "save"]]

NoHistory == [owner |-> [b \in {} |-> 0], persisted |-> EmptyDict, overlap |-> FALSE]

Construct(p) ==
    /\ sims[p].pc = "idle"
    /\ \E group \in DOMAIN interface_groups, show, force \in BOOLEAN,
          bridge_id \in BridgeIds :
          sims' = [sims EXCEPT ![p] =
                      NewSim(group, show, FALSE, force, state_file, bridge_id)]
    /\ UNCHANGED <<state_file, devices, interrupts, twin, calc, history>>

InitialSetup(p) ==
    /\ sims[p].pc = "ready"
    /\ \E m \in initial_setup(Machine(sims[p], devices, state_file, TRUE)) :
          /\ sims' = [sims EXCEPT ![p] = After(m.self, "setup")]
          /\ devices' = m.devices
          /\ state_file' = m.state_file
    /\ UNCHANGED <<interrupts, twin, calc, history>>

TeardownSetup(p) ==
    /\ sims[p].pc = "ready"
    /\ \E m \in teardown_setup(Machine(sims[p], devices, state_file, TRUE)) :
          /\ sims' = [sims EXCEPT ![p] = After(m.self, "teardown")]
          /\ devices' = m.devices
          /\ state_file' = m.state_file
    /\ UNCHANGED <<interrupts, twin, calc, history>>

\* the process ends
Exit(p) ==
    /\ sims[p].pc # "idle"
    /\ sims' = [sims EXCEPT ![p] = IdleSim]
    /\ UNCHANGED <<state_file, devices, interrupts, twin, calc, history>>

NoTwin == [state_file |-> NoFile, devices |-> {}, self |-> IdleSim]
NoCalc == [core |-> 0, done |-> FALSE, result |-> Raise("none")]

Init ==
    /\ state_file \in StateFiles
    /\ devices = {}
    /\ interrupts = <<>>
    /\ sims = [p \in Procs |-> IdleSim]
    /\ twin = NoTwin
    /\ calc = NoCalc
    /\ history = NoHistory

\* the process whose invocations, one after the other, Spec follows
Main == CHOOSE p \in Procs : \A q \in Procs : p <= q

Next ==
    \/ Construct(Main)
    \/ InitialSetup(Main)
    \/ TeardownSetup(Main)
    \/ Exit(Main)

Spec == Init /\ [][Next]_vars

(***************************************************************************)
(* SpecHost: the invocations of Spec, with the bridges of the host traced  *)
(* to the setups that created them.                                        *)
(***************************************************************************)
HostInitialSetup(p) ==
    /\ sims[p].pc = "ready"
    /\ \E m \in initial_setup(Machine(sims[p], devices, state_file, TRUE)) :
          /\ sims' = [sims EXCEPT ![p] = After(m.self, "setup")]
          /\ devices' = m.devices
          /\ state_file' = m.state_file
          /\ history' = [history EXCEPT !.owner = Owners(@, m)]
    /\ UNCHANGED <<interrupts, twin, calc>>

HostTeardownSetup(p) ==
    /\ sims[p].pc = "ready"
    /\ \E m \in teardown_setup(Machine(sims[p], devices, state_file, TRUE)) :
          /\ sims' = [sims EXCEPT ![p] = After(m.self, "teardown")]
          /\ devices' = m.devices
          /\ state_file' = m.state_file
          /\ history' = [history EXCEPT !.owner = Owners(@, m)]
    /\ UNCHANGED <<interrupts, twin, calc>>

NextHost ==
    \/ Construct(Main)
    \/ HostInitialSetup(Main)
    \/ HostTeardownSetup(Main)
    \/ Exit(Main)

SpecHost == Init /\ [][NextHost]_vars

(***************************************************************************)
(* SpecBitmask: the bitmask calculator on each core of 0..MaxCore.         *)
(***************************************************************************)
InitBitmask ==
    /\ state_file = NoFile
    /\ devices = {}
    /\ interrupts = <<>>
    /\ sims = [p \in Procs |-> IdleSim]
    /\ twin = NoTwin
    /\ \E core \in 0..MaxCore : calc = [NoCalc EXCEPT !.core = core]
    /\ history = NoHistory

Calculate ==
    /\ ~calc.done
    /\ calc' = [calc EXCEPT !.done = TRUE, !.result = corenum_to_bitmask(calc.core)]
    /\ UNCHANGED <<state_file, devices, interrupts, sims, twin, history>>

SpecBitmask == InitBitmask /\ [][Calculate]_vars

(***************************************************************************)
(* SpecStore: objects constructed against one state file.                  *)
(***************************************************************************)
StoreConstruct(p) ==
    /\ sims[p].pc = "idle"
    /\ \E group \in DOMAIN interface_groups, verbose \in BOOLEAN, bridge_id \in BridgeIds :
          sims' = [sims EXCEPT ![p] =
                      NewSim(group, FALSE, verbose, FALSE, state_file, bridge_id)]
    /\ UNCHANGED <<state_file, devices, interrupts, twin, calc, history>>

NextStore == \E p \in Procs : StoreConstruct(p) \/ Exit(p)

SpecStore == Init /\ [][NextStore]_vars

(***************************************************************************)
(* SpecIrq: the IRQ planner on the tables of at most MaxLines lines.       *)
(***************************************************************************)
InitIrq ==
    /\ state_file = NoFile
    /\ devices = {}
    /\ interrupts \in InterruptTables
    /\ sims = [p \in Procs |-> IdleSim]
    /\ twin = NoTwin
    /\ calc = NoCalc
    /\ history = NoHistory

IrqConstruct(p) ==
    /\ sims[p].pc = "idle"
    /\ \E group \in DOMAIN interface_groups, show \in BOOLEAN :
          sims' = [sims EXCEPT ![p] =
                      NewSim(group, show, FALSE, FALSE, state_file, BridgeIdMin)]
    /\ UNCHANGED <<state_file, devices, interrupts, twin, calc, history>>

ProcessIrqValues(p) ==
    \E configure, show_existing \in BOOLEAN :
        /\ MayPlan(sims[p], configure, show_existing)
        /\ \E m \in process_irq_values(Machine(sims[p], devices, state_file, TRUE),
                                       interrupts, configure, show_existing) :
              /\ sims' = [sims EXCEPT ![p] =
                             AfterIrq(m.self, IrqMode(configure, show_existing))]
              /\ devices' = m.devices
              /\ state_file' = m.state_file
        /\ UNCHANGED <<interrupts, twin, calc, history>>

NextIrq ==
    \/ IrqConstruct(Main)
    \/ ProcessIrqValues(Main)
    \/ Exit(Main)

SpecIrq == InitIrq /\ [][NextIrq]_vars

(***************************************************************************)
(* SpecShow: invocations with --show, and beside them, in twin, the same   *)
(* invocations with the same draws made without --show on a host where     *)
(* every command succeeds.                                                 *)
(***************************************************************************)
InitShow ==
    /\ state_file \in StateFiles
    /\ devices = {}
    /\ interrupts = SomeInterrupts
    /\ sims = [p \in Procs |-> IdleSim]
    /\ twin = [state_file |-> state_file, devices |-> {}, self |-> IdleSim]
    /\ calc = NoCalc
    /\ history = NoHistory

\* the one outcome of a call on a host where every command succeeds
TwinAfter(outcomes) == CHOOSE m \in outcomes : TRUE
TwinMachine == Machine(twin.self, twin.devices, twin.state_file, FALSE)

ShowConstruct(p) ==
    /\ sims[p].pc = "idle"
    /\ \E group \in DOMAIN interface_groups, force \in BOOLEAN, bridge_id \in BridgeIds :
          /\ sims' = [sims EXCEPT ![p] =
                         NewSim(group, TRUE, FALSE, force, state_file, bridge_id)]
          /\ twin' = [twin EXCEPT !.self =
                         NewSim(group, FALSE, FALSE, force, twin.state_file, bridge_id)]
    /\ UNCHANGED <<state_file, devices, interrupts, calc, history>>

ShowInitialSetup(p) ==
    /\ sims[p].pc = "ready"
    /\ \E m \in initial_setup(Machine(sims[p], devices, state_file, FALSE)) :
          /\ sims' = [sims EXCEPT ![p] = After(m.self, "setup")]
          /\ devices' = m.devices
          /\ state_file' = m.state_file
    /\ twin' = IF twin.self.pc = "ready"
               THEN LET t == TwinAfter(initial_setup(TwinMachine))
                    IN [state_file |-> t.state_file, devices |-> t.devices,
                        self |-> After(t.self, "setup")]
               ELSE twin
    /\ UNCHANGED <<interrupts, calc, history>>

ShowTeardownSetup(p) ==
    /\ sims[p].pc = "ready"
    /\ \E m \in teardown_setup(Machine(sims[p], devices, state_file, FALSE)) :
          /\ sims' = [sims EXCEPT ![p] = After(m.self, "teardown")]
          /\ devices' = m.devices
          /\ state_file' = m.state_file
    /\ twin' = IF twin.self.pc = "ready"
               THEN LET t == TwinAfter(teardown_setup(TwinMachine))
                    IN [state_file |-> t.state_file, devices |-> t.devices,
                        self |-> After(t.self, "teardown")]
               ELSE twin
    /\ UNCHANGED <<interrupts, calc, history>>

\* process_irq_values(configure=True)
ShowApplyIrq(p) ==
    /\ MayPlan(sims[p], TRUE, FALSE)
    /\ \E m \in process_irq_values(Machine(sims[p], devices, state_file, FALSE),
                                   interrupts, TRUE, FALSE) :
          /\ sims' = [sims EXCEPT ![p] = AfterIrq(m.self, "apply")]
          /\ devices' = m.devices
          /\ state_file' = m.state_file
    /\ twin' = IF MayPlan(twin.self, TRUE, FALSE)
               THEN LET t == TwinAfter(process_irq_values(TwinMachine, interrupts,
                                                          TRUE, FALSE))
                    IN [state_file |-> t.state_file, devices |-> t.devices,
                        self |-> AfterIrq(t.self, "apply")]
               ELSE twin
    /\ UNCHANGED <<interrupts, calc, history>>

ShowExit(p) ==
    /\ sims[p].pc # "idle"
    /\ sims' = [sims EXCEPT ![p] = IdleSim]
    /\ twin' = [twin EXCEPT !.self = IdleSim]
    /\ UNCHANGED <<state_file, devices, interrupts, calc, history>>

NextShow ==
    \/ ShowConstruct(Main)
    \/ ShowInitialSetup(Main)
    \/ ShowTeardownSetup(Main)
    \/ ShowApplyIrq(Main)
    \/ ShowExit(Main)

SpecShow == InitShow /\ [][NextShow]_vars

(***************************************************************************)
(* SpecRace: two invocations against one state file, interleaved in any    *)
(* way, every command succeeding.                                          *)
(***************************************************************************)
\* the entries the setups that saved have put in the file and no teardown
\* that saved has removed since
Persisted(persisted, self, acted) ==
    IF \A i \in 1..Len(self.trace) : self.trace[i].ev # "save" THEN persisted
    ELSE IF acted = "setup"
    THEN [k \in DOMAIN persisted \cup Range(self.interfaces) |->
             IF k \in Range(self.interfaces) THEN self.state[k] ELSE persisted[k]]
    ELSE [k \in DOMAIN persisted \ Range(self.interfaces) |-> persisted[k]]

InitRace ==
    /\ state_file = NoFile
    /\ devices = {}
    /\ interrupts = <<>>
    /\ sims = [p \in Procs |-> IdleSim]
    /\ twin = NoTwin
    /\ calc = NoCalc
    /\ history = NoHistory

\* what random.randint returns in the invocations of p: the two processes
\* draw different identifiers
RaceDraw(p) == BridgeIdMin + (p - 1)

RaceConstruct(p) ==
    /\ sims[p].pc = "idle"
    /\ \E group \in DOMAIN interface_groups :
          sims' = [sims EXCEPT ![p] =
                      NewSim(group, FALSE, FALSE, FALSE, state_file, RaceDraw(p))]
    /\ history' = [history EXCEPT !.overlap =
                      @ \/ \E q \in Procs \ {p} : sims[q].pc # "idle"]
    /\ UNCHANGED <<state_file, devices, interrupts, twin, calc>>

RaceInitialSetup(p) ==
    /\ sims[p].pc = "ready"
    /\ \E m \in initial_setup(Machine(sims[p], devices, state_file, FALSE)) :
          /\ sims' = [sims EXCEPT ![p] = After(m.self, "setup")]
          /\ devices' = m.devices
          /\ state_file' = m.state_file
          /\ history' = [history EXCEPT !.persisted = Persisted(@, m.self, "setup")]
    /\ UNCHANGED <<interrupts, twin, calc>>

RaceTeardownSetup(p) ==
    /\ sims[p].pc = "ready"
    /\ \E m \in teardown_setup(Machine(sims[p], devices, state_file, FALSE)) :
          /\ sims' = [sims EXCEPT ![p] = After(m.self, "teardown")]
          /\ devices' = m.devices
          /\ state_file' = m.state_file
          /\ history' = [history EXCEPT !.persisted = Persisted(@, m.self, "teardown")]
    /\ UNCHANGED <<interrupts, twin, calc>>

NextRace ==
    \E p \in Procs :
        \/ RaceConstruct(p)
        \/ RaceInitialSetup(p)
        \/ RaceTeardownSetup(p)
        \/ Exit(p)

SpecRace == InitRace /\ [][NextRace]_vars

(***************************************************************************)
(* Reading a trace.                                                        *)
(***************************************************************************)
Execs(trace) == SelectSeq(trace, LAMBDA e : e.ev = "exec")
Cmds(trace) == [i \in 1..Len(Execs(trace)) |-> Execs(trace)[i].cmd]
Saves(trace) == SelectSeq(trace, LAMBDA e : e.ev = "save")
AllOk(trace) == \A i \in 1..Len(Execs(trace)) : Execs(trace)[i].ok
Members(self) == Range(self.interfaces)

\* p's method call: from the object constructed to the method returned or raised
Called(p, method) == sims[p].pc = "ready" /\ sims'[p].acted = method

\* the call did nothing but its probe
OnlyProbed(p) ==
    /\ Len(sims'[p].trace) = 1 /\ sims'[p].trace[1].ev = "probe"
    /\ sims'[p].exc = "none"
    /\ sims'[p].state = sims[p].state
    /\ state_file' = state_file
    /\ devices' = devices

\* C1 (first part): a setup whose probe finds the bridge, and a teardown whose
\* probe does not, both without force, run no command, write no state file and
\* leave the in-memory state, the state file and the host as they were.
GuardedCallIsNoOp ==
    \A p \in Procs :
        /\ (Called(p, "setup") /\ ~sims[p].force /\ Len(sims'[p].trace) > 0
              /\ sims'[p].trace[1].ok) => OnlyProbed(p)
        /\ (Called(p, "teardown") /\ ~sims[p].force /\ Len(sims'[p].trace) > 0
              /\ ~sims'[p].trace[1].ok) => OnlyProbed(p)

\* C1 (second part): a real setup that ran to its end leaves the bridge on the
\* host and the identifier in the state file, so that the next setup of the
\* group derives the same identifier and its probe finds the bridge.
SetupLeavesConfigured ==
    \A p \in Procs :
        (sims[p].acted = "setup" /\ sims[p].pc = "acted" /\ ~sims[p].show_only
            /\ Len(sims[p].trace) > 1) =>
            /\ BridgeName(get_bridge_id(sims[p]).value) \in devices
            /\ state_file.exists
            /\ \A i \in Members(sims[p]) :
                  /\ i \in DOMAIN json_loads(state_file.text)
                  /\ json_loads(state_file.text)[i] = sims[p].state[i]

\* C1: guarded no-op of setup and teardown, and hence of a repeated setup.
C1_GuardedNoOp == [][GuardedCallIsNoOp]_vars /\ []SetupLeavesConfigured

\* C1 witness: a setup without force has found its bridge and returned.
C1_Witness ==
    \E p \in Procs :
        /\ sims[p].acted = "setup" /\ ~sims[p].force /\ sims[p].pc = "acted"
        /\ Len(sims[p].trace) = 1 /\ sims[p].trace[1].ok

StartsWith(s, prefix) == Len(s) >= Len(prefix) /\ SubSeq(s, 1, Len(prefix)) = prefix
IsTcAdd(e) == e.ev = "exec" /\ StartsWith(e.cmd, <<"tc", " ", "qdisc", " ", "add">>)
IsTcDel(e) == e.ev = "exec" /\ StartsWith(e.cmd, <<"tc", " ", "qdisc", " ", "del">>)

\* C2: a setup that reaches the delay-queue loop attempts the attach command for
\* every (interface, queue) pair, whichever attempts fail.
C2_AttachLoopNeverAborts ==
    \A p \in Procs :
        (sims[p].acted = "setup" /\ \E i \in 1..Len(sims[p].trace) : IsTcAdd(sims[p].trace[i])) =>
            Len(SelectSeq(sims[p].trace, IsTcAdd))
                = Len(sims[p].interfaces) * sims[p].queues_per_interface

\* the group's members hold two different identifiers
Mixed(self) ==
    \E a, b \in Members(self) \cap DOMAIN self.state : self.state[a] # self.state[b]

\* C3: with two identifiers in one group, setup and teardown end in exit(1)
\* before any probe, command or write of the state file.
C3_MixedIdsAreFatal ==
    \A p \in Procs :
        (sims[p].acted # "none" /\ Mixed(sims[p])) =>
            /\ sims[p].exc = "SystemExit"
            /\ sims[p].pc = "crashed"
            /\ sims[p].trace = <<>>

\* C3 witness: a teardown of a group with two identifiers has exited.
C3_Witness ==
    \E p \in Procs :
        sims[p].acted = "teardown" /\ Mixed(sims[p]) /\ sims[p].exc = "SystemExit"

RECURSIVE Flatten(_)
Flatten(ss) == IF Len(ss) = 0 THEN <<>> ELSE ss[1] \o Flatten(Tail(ss))

IsPrefix(s, t) == Len(s) <= Len(t) /\ SubSeq(t, 1, Len(s)) = s

\* the commands of a whole setup of self's group with the bridge identifier b
SetupOrder(self, b) ==
    <<KillIrqbalance>>
    \o [i \in 1..Len(self.interfaces) |-> IfUp(self.interfaces[i])]
    \o <<AddBr(b)>>
    \o [i \in 1..Len(self.interfaces) |-> AddIf(b, self.interfaces[i])]
    \o <<BrUp(b), Governor>>
    \o [j \in 1..Len(kernel_tweaks) |-> Tweak(kernel_tweaks[j])]
    \o Flatten([i \in 1..Len(self.interfaces) |->
                   [q \in 1..self.queues_per_interface |->
                       TcAdd(self.interfaces[i], q, self.delay)]])

\* C6: a setup that goes past its guard and in which no command fails issues
\* killall, the interface-ups, bridge-create, the bridge-attaches, bridge-up,
\* the governor, the tweaks, then the delay-attaches with the queues 1..k of each
\* member, all bridge commands naming the bridge of the group's one identifier,
\* and writes the state file once, after all of them.
C6_SetupOrder ==
    \A p \in Procs :
        LET self == sims[p]
            t == self.trace
        IN (self.acted = "setup" /\ Len(t) > 1 /\ AllOk(t)) =>
              /\ self.exc = "none"
              /\ \E b \in BridgeIds :
                    /\ \A i \in Members(self) : self.state[i] = b
                    /\ Cmds(t) = SetupOrder(self, b)
              /\ t[1].ev = "probe"
              /\ \A i \in 2..(Len(t) - 1) : t[i].ev = "exec"
              /\ t[Len(t)].ev = "save"
              /\ state_file = FileOf(t[Len(t)].content)

\* C6 witness: a whole setup of the group of two members, all commands run.
C6_Witness ==
    \E p \in Procs :
        /\ sims[p].acted = "setup" /\ ~sims[p].show_only /\ AllOk(sims[p].trace)
        /\ Len(sims[p].interfaces) = 2
        /\ Len(Cmds(sims[p].trace)) = 2 * (2 + sims[p].queues_per_interface)
                                          + 4 + Len(kernel_tweaks)

\* the commands of a whole teardown of self's group with the bridge identifier b
TeardownOrder(self, b) ==
    [i \in 1..Len(self.interfaces) |-> IfDown(self.interfaces[i])]
    \o Flatten([i \in 1..Len(self.interfaces) |->
                   [q \in 1..self.queues_per_interface |->
                       TcDel(self.interfaces[i], q, self.delay)]])
    \o <<BrDown(b), DelBr(b)>>

\* a command other than a delay-removal failed
FatalFailure(t) == \E i \in 1..Len(t) : t[i].ev = "exec" /\ ~t[i].ok /\ ~IsTcDel(t[i])

TeardownInOrder ==
    \A p \in Procs :
        (Called(p, "teardown") /\ Len(sims'[p].trace) > 1) =>
            LET self == sims[p]
                t == sims'[p].trace
                whole == TeardownOrder(self, get_bridge_id(self).value)
            IN /\ IsPrefix(Cmds(t), whole)
               /\ IF FatalFailure(t)
                  THEN /\ Saves(t) = <<>>
                       /\ state_file' = state_file
                       /\ sims'[p].state = self.state
                       /\ sims'[p].exc = "ValueError"
                  ELSE /\ Cmds(t) = whole
                       /\ Execs(t)[Len(whole)].ok
                       /\ Len(Saves(t)) = 1
                       /\ t[Len(t)].ev = "save"
                       /\ Members(self) \cap DOMAIN sims'[p].state = {}
                       /\ \A i \in DOMAIN self.state \ Members(self) :
                             i \in DOMAIN sims'[p].state /\ sims'[p].state[i] = self.state[i]
                       /\ state_file' = FileOf(json_dumps(sims'[p].state))
                       /\ Members(self) \cap DOMAIN json_loads(state_file'.text) = {}

\* C7: a teardown that goes past its guard issues the interface-downs, then the
\* delay-removals of the queues 1..k of each member, then bridge-down, then
\* bridge-delete; only after bridge-delete succeeded are the members removed
\* from the state and the file saved; when an interface-down, the bridge-down or
\* the bridge-delete fails the teardown stops there and the file is as it was.
C7_TeardownOrder == [][TeardownInOrder]_vars

\* C7 witness: a real teardown removed the group's entries, which the file held,
\* after a delay-removal had failed.
C7_Witness ==
    \E p \in Procs :
        /\ sims[p].acted = "teardown" /\ ~sims[p].show_only /\ sims[p].pc = "acted"
        /\ Len(Saves(sims[p].trace)) = 1
        /\ ~AllOk(sims[p].trace)
        /\ DOMAIN json_loads(state_file.text) # {}

(***************************************************************************)
(* The state store at construction (SpecStore).                            *)
(***************************************************************************)
\* what the state file holds
Loaded == IF state_file.exists THEN json_loads(state_file.text) ELSE EmptyDict

Constructed(p) == sims[p].pc = "ready"

\* C4: two objects constructed for one group against one state file that has
\* an identifier for every member, whatever each drew, hold the loaded state,
\* unchanged, and derive the same bridge identifier (or both stop on the same
\* mixed state); the identifier drawn is stored nowhere.
C4_DerivationIdempotent ==
    \A p, q \in Procs :
        (/\ Constructed(p) /\ Constructed(q)
         /\ sims[p].interfaces = sims[q].interfaces
         /\ Members(sims[p]) \subseteq DOMAIN Loaded)
        => /\ sims[p].state = Loaded
           /\ sims[q].state = Loaded
           /\ get_bridge_id(sims[p]) = get_bridge_id(sims[q])
           /\ get_bridge_id(sims[p]).exc = "none"
                 => \A k \in Members(sims[p]) : get_bridge_id(sims[p]).value = Loaded[k]

\* two objects of one group, with different draws, on a fully assigned file
C4_Witness ==
    \E p, q \in Procs :
        /\ p # q /\ Constructed(p) /\ Constructed(q)
        /\ sims[p].interfaces = sims[q].interfaces
        /\ sims[p].drawn # sims[q].drawn
        /\ Members(sims[p]) \subseteq DOMAIN Loaded
        /\ \A k \in Members(sims[p]) : Loaded[k] # sims[p].drawn
        /\ get_bridge_id(sims[p]).exc = "none"

\* C5: after construction the state has the entries of the loaded state, each
\* with its value, and one entry more for every member that had none, all with
\* the one identifier drawn; a missing file is an empty loaded state.
C5_ConstructionFrame ==
    \A p \in Procs :
        Constructed(p) =>
            /\ ~state_file.exists => Loaded = EmptyDict
            /\ DOMAIN sims[p].state = DOMAIN Loaded \cup Members(sims[p])
            /\ \A k \in DOMAIN Loaded : sims[p].state[k] = Loaded[k]
            /\ \A k \in Members(sims[p]) \ DOMAIN Loaded :
                  sims[p].state[k] = sims[p].drawn
            /\ sims[p].drawn \in BridgeIds

\* a group of two members, one with an entry and one without, beside an entry
\* of the other group
C5_Witness ==
    \E p \in Procs :
        /\ Constructed(p)
        /\ state_file.exists
        /\ \E a, b \in Members(sims[p]) :
              /\ a \in DOMAIN Loaded /\ b \notin DOMAIN Loaded
              /\ sims[p].state[a] # sims[p].state[b]
        /\ DOMAIN Loaded \ Members(sims[p]) # {}

(***************************************************************************)
(* Show-only mode (SpecShow).                                              *)
(***************************************************************************)
\* no process run, no pseudo-file written, no failure of the executor
ShowOnlyNoSideEffect ==
    \A p \in Procs :
        sims[p].show_only =>
            /\ \A i \in 1..Len(Execs(sims[p].trace)) :
                  /\ Execs(sims[p].trace)[i].how = "none"
                  /\ Execs(sims[p].trace)[i].ok
                  /\ Execs(sims[p].trace)[i].printed
            /\ sims[p].exc \notin {"OSError", "IndexError"}
            /\ sims[p].exc = "ValueError" => sims[p].irq_mode = "apply"
            /\ devices = {}

\* C8 as stated: over any sequence of show-only calls, no side effect, and the
\* commands echoed are those the real run of the same calls issues when every
\* command succeeds.
C8_ShowOnlyEchoesRealRun ==
    /\ ShowOnlyNoSideEffect
    /\ \A p \in Procs :
          (p = Main /\ sims[p].show_only /\ sims[p].pc # "idle")
          => Cmds(sims[p].trace) = Cmds(twin.self.trace)

\* the outcomes of the call made in this step, made instead without --show
\* from the same object, host and state file, every command succeeding
RealCall(p) ==
    LET real == Machine([sims[p] EXCEPT !.show_only = FALSE], devices, state_file, FALSE)
    IN IF sims'[p].irq_mode # sims[p].irq_mode
       THEN process_irq_values(real, interrupts, TRUE, FALSE)
       ELSE IF sims'[p].acted = "setup" THEN initial_setup(real)
       ELSE teardown_setup(real)

ShowCallEchoesRealCall ==
    \A p \in Procs :
        (/\ sims[p].show_only
         /\ sims[p].pc \in {"ready", "acted"}
         /\ sims'[p].pc \in {"acted", "planned", "crashed"}
         /\ sims'[p] # sims[p])
        => \A r \in RealCall(p) :
              /\ Cmds(sims'[p].trace) = Cmds(r.self.trace)
              /\ sims'[p].exc = r.self.exc

\* C8, amended: over any sequence of show-only calls, no process is run, no
\* pseudo-file is written and the executor never fails; and each call echoes
\* the commands that the same call, made for real from the same host and state
\* file with every command succeeding, issues.
C8_ShowOnlyEchoesRealCall ==
    /\ []ShowOnlyNoSideEffect
    /\ [][ShowCallEchoesRealCall]_vars

\* a show-only setup followed by a show-only IRQ apply, both echoing
C8_Witness ==
    /\ sims[Main].show_only
    /\ sims[Main].acted = "setup"
    /\ sims[Main].irq_mode = "apply"
    /\ sims[Main].exc = "none"
    /\ \E i, j \in 1..Len(Cmds(sims[Main].trace)) :
          /\ i < j
          /\ Cmds(sims[Main].trace)[i][1] = "brctl"
          /\ Cmds(sims[Main].trace)[j][1] = "echo"
          /\ Contains(Cmds(sims[Main].trace)[j], <<"/smp_affinity">>)

(***************************************************************************)
(* The bitmask calculator (SpecBitmask).                                   *)
(***************************************************************************)
Zeros(n) == [i \in 1..n |-> "0"]

\* two groups of 8 lowercase hexadecimal digits and a comma between them
IsBitmask(s) ==
    /\ Len(s) = 17
    /\ s[9] = ","
    /\ \A i \in (1..17) \ {9} : s[i] \in Range(HexDigits)

\* C9: corenum_to_bitmask returns two comma-separated groups of 8 lowercase
\* hexadecimal digits for every core of 0..64 and fails for every core above;
\* 0 gives 00000000,00000001, 31 gives 00000000,80000000 and 32 gives
\* 00000001,00000000.
C9_BitmaskFormat ==
    calc.done =>
        /\ calc.core <= 64 => calc.result.exc = "none" /\ IsBitmask(calc.result.value)
        /\ calc.core > 64 => calc.result.exc # "none"
        /\ calc.core = 0 =>
              calc.result.value = Zeros(8) \o <<",">> \o Zeros(7) \o <<"1">>
        /\ calc.core = 31 =>
              calc.result.value = Zeros(8) \o <<",">> \o <<"8">> \o Zeros(7)
        /\ calc.core = 32 =>
              calc.result.value = Zeros(7) \o <<"1">> \o <<",">> \o Zeros(8)

\* the calculator has failed on core 65
C9_Witness == calc.done /\ calc.core = 65 /\ calc.result.exc = "NotImplementedError"

(***************************************************************************)
(* IRQ planning (SpecIrq).                                                 *)
(***************************************************************************)
\* the key a line is attributed to: the first, in mapping order, that occurs
\* in it; 0 when none does
Attributed(mapping, line) ==
    IF \E j \in 1..Len(mapping) : Contains(line, mapping[j].key)
    THEN CHOOSE j \in 1..Len(mapping) :
            /\ Contains(line, mapping[j].key)
            /\ \A k \in 1..(j - 1) : ~Contains(line, mapping[k].key)
    ELSE 0

\* the assignment of line i: the base core of its key plus the number of
\* earlier lines attributed to the same key
Assignment(mapping, lines, i) ==
    LET j == Attributed(mapping, lines[i])
        n == Cardinality({h \in 1..(i - 1) : Attributed(mapping, lines[h]) = j})
    IN [interface |-> mapping[j].key, counter |-> n,
        irq |-> Split(Strip(lines[i]), ":")[1], core |-> mapping[j].core + n]

\* an attributed line the scan stops at: without a colon, or past the last core
Stops(mapping, lines, i) ==
    /\ Attributed(mapping, lines[i]) # 0
    /\ \/ ":" \notin Range(lines[i])
       \/ Assignment(mapping, lines, i).core > CoreLimit

\* the attributed lines before the first the scan stops at
Planned(mapping, lines) ==
    {i \in 1..Len(lines) :
        /\ Attributed(mapping, lines[i]) # 0
        /\ \A h \in 1..i : ~Stops(mapping, lines, h)}

\* their assignments, in file order
ExpectedPlan(mapping, lines) ==
    [k \in 1..Cardinality(Planned(mapping, lines)) |->
        Assignment(mapping, lines,
                   CHOOSE i \in Planned(mapping, lines) :
                       Cardinality({h \in Planned(mapping, lines) : h <= i}) = k)]

\* what a call assigned
Assigned(plan) ==
    [k \in 1..Len(plan) |->
        [interface |-> plan[k].interface, counter |-> plan[k].counter,
         irq |-> plan[k].irq, core |-> plan[k].core]]

Reports(trace) == SelectSeq(trace, LAMBDA e : e.ev = "report")

\* C10: in each of the three modes the call assigns, in file order, to every
\* line attributed to a key (the first in mapping order found in the line) the
\* base core of the key plus the number of earlier lines of that key, the
\* counters end at the number of lines of each key, the report of an
\* invocation lists what its apply call writes, and only an apply call that is
\* not show-only writes.
C10_IrqPlan ==
    \A p \in Procs :
        sims[p].irq_mode # "none" =>
            LET self == sims[p]
                expected == ExpectedPlan(self.interface_core_mapping, interrupts)
                writes == Execs(self.trace)
            IN /\ self.exc # "OSError" => Assigned(self.plan) = expected
               /\ self.exc = "OSError" =>
                     /\ self.irq_mode = "apply" /\ ~self.show_only
                     /\ IsPrefix(Assigned(self.plan), expected)
               /\ self.exc = "none" =>
                     \A j \in 1..Len(self.interface_core_mapping) :
                         self.interface_irq[j] =
                            Cardinality({i \in 1..Len(interrupts) :
                                Attributed(self.interface_core_mapping, interrupts[i]) = j})
               /\ (self.irq_mode # "report" /\ Reports(self.trace) # <<>>
                      /\ self.exc # "OSError") =>
                     Assigned(Reports(self.trace)) = Assigned(self.plan)
               /\ self.irq_mode # "apply" => writes = <<>>
               /\ self.irq_mode = "apply" =>
                     /\ Len(writes) = Len(self.plan)
                     /\ \A k \in 1..Len(writes) :
                           /\ writes[k].cmd =
                                 SetAffinity(self.plan[k].bitmask, self.plan[k].irq)
                           /\ writes[k].how = IF self.show_only THEN "none" ELSE "write"

\* an apply call after the report, on a table with a line of two keys and two
\* lines of one key
C10_Witness ==
    \E p \in Procs :
        /\ sims[p].irq_mode = "apply" /\ ~sims[p].show_only /\ sims[p].exc = "none"
        /\ Reports(sims[p].trace) # <<>>
        /\ \E k \in 1..Len(sims[p].plan) : sims[p].plan[k].counter = 1
        /\ \E i \in 1..Len(interrupts) :
              Cardinality({j \in 1..Len(sims[p].interface_core_mapping) :
                  Contains(interrupts[i], sims[p].interface_core_mapping[j].key)}) > 1
        /\ Len(Execs(sims[p].trace)) = Len(sims[p].plan)

(***************************************************************************)
(* Kernel-parameter writes (Spec).                                         *)
(***************************************************************************)
\* the pseudo-file of a dotted key: /proc/sys/ and the key, its dots made
\* path separators
TweakPath(key) ==
    <<"/proc/sys/">> \o [i \in 1..Len(key) |-> IF key[i] = "." THEN "/" ELSE key[i]]

\* C11: each write the real executor makes for a configured tweak, its value
\* with or without spaces, goes to /proc/sys/<key with dots as separators>
\* and writes exactly the value.
C11_TweakWrites ==
    \A p \in Procs :
        \A i \in 1..Len(Execs(sims[p].trace)) :
            \A t \in 1..Len(kernel_tweaks) :
                (/\ Execs(sims[p].trace)[i].cmd = Tweak(kernel_tweaks[t])
                 /\ Execs(sims[p].trace)[i].how = "write"
                 /\ Execs(sims[p].trace)[i].ok)
                => /\ Execs(sims[p].trace)[i].path = TweakPath(kernel_tweaks[t].key)
                   /\ Execs(sims[p].trace)[i].content = kernel_tweaks[t].value

(***************************************************************************)
(* Failures in setup and teardown (Spec, SpecHost).                         *)
(***************************************************************************)
\* a bridge of the host left by a setup of self's group that did not reach
\* its save_state
LeftByAbortedSetup(self, b) ==
    /\ b \in devices
    /\ history.owner[b].interfaces = self.interfaces
    /\ ~history.owner[b].completed

TeardownCleansUp ==
    \A p \in Procs :
        \A b \in devices :
            (/\ Called(p, "teardown")
             /\ ~sims[p].show_only
             /\ LeftByAbortedSetup(sims[p], b)
             /\ Len(Execs(sims'[p].trace)) > 0)
            => /\ BridgeName(get_bridge_id(sims[p]).value) = b
               /\ (sims'[p].exc = "none" /\ AllOk(sims'[p].trace)) =>
                     /\ b \notin devices'
                     /\ Members(sims[p]) \cap DOMAIN json_loads(state_file'.text) = {}

\* C12: a real teardown that goes past its guard, for a group whose earlier
\* setup created a bridge and then aborted, addresses that bridge, and when
\* all its commands succeed the bridge is gone and the group has no entry
\* in the state file.
C12_TeardownRecovers == [][TeardownCleansUp]_vars

Warnings(trace) == SelectSeq(trace, LAMBDA e : e.ev = "warning")

RemovalFailuresCaught ==
    \A p \in Procs :
        LET self == sims[p]
            E == Execs(sims'[p].trace)
            nif == Len(self.interfaces)
            pairs == QueuePairs(self)
            b == get_bridge_id(self).value
        IN (/\ Called(p, "teardown")
            /\ Len(E) >= nif
            /\ \A i \in 1..nif : E[i].ok)
           => /\ Len(E) > nif + Len(pairs)
              /\ \A j \in 1..Len(pairs) :
                    E[nif + j].cmd = TcDel(pairs[j].hw_interface, pairs[j].queue, self.delay)
              /\ Len(Warnings(sims'[p].trace))
                    = Cardinality({j \in 1..Len(pairs) : ~E[nif + j].ok})
              /\ E[nif + Len(pairs) + 1].cmd = BrDown(b)
              /\ E[nif + Len(pairs) + 1].ok =>
                    /\ Len(E) = nif + Len(pairs) + 2
                    /\ E[nif + Len(pairs) + 2].cmd = DelBr(b)
                    /\ E[nif + Len(pairs) + 2].ok =>
                          /\ sims'[p].exc = "none"
                          /\ Len(Saves(sims'[p].trace)) = 1
                          /\ Members(self) \cap DOMAIN json_loads(state_file'.text) = {}

\* C13: in a teardown whose interface-downs succeeded, a removal is attempted
\* for each (member, queue) pair, in order, whichever of them fail, with one
\* warning for each failure; bridge-down follows, bridge-delete follows a
\* successful bridge-down, and the group's entries leave the state file after
\* a successful bridge-delete.
C13_RemovalFailuresAreWarnings == [][RemovalFailuresCaught]_vars

\* a real teardown of the group of two members in which every removal failed
\* and which went on to delete the bridge and clear the state
C13_Witness ==
    \E p \in Procs :
        /\ sims[p].acted = "teardown" /\ ~sims[p].show_only /\ sims[p].exc = "none"
        /\ Len(sims[p].interfaces) = 2
        /\ Len(Warnings(sims[p].trace)) = Len(QueuePairs(sims[p]))
        /\ Len(Saves(sims[p].trace)) = 1
        /\ StartsWith(Execs(sims[p].trace)[Len(Execs(sims[p].trace))].cmd,
                      <<"brctl", " ", "delbr">>)

\* the places, among the commands of a setup, of the interface-ups, the
\* bridge-create, the bridge-attaches, the bridge-up and the governor
AbortingSteps(self) == 2..(2 * Len(self.interfaces) + 4)

\* C15: in a setup past its guard, a failed killall is followed by a warning
\* and the first interface-up, and the setup runs to its save when nothing
\* else fails; a failed interface-up, bridge-create, bridge-attach, bridge-up
\* or governor command is the last thing the setup does, and it writes no
\* state file.
C15_KillallWarnsOthersAbort ==
    \A p \in Procs :
        LET self == sims[p]
            t == self.trace
            E == Execs(t)
            b == get_bridge_id(self).value
        IN (self.acted = "setup" /\ Len(t) > 1) =>
              /\ IsPrefix(Cmds(t), SetupOrder(self, b))
              /\ ~E[1].ok =>
                    /\ Len(t) >= 4
                    /\ t[3] = [ev |-> "warning", what |-> "irqbalance"]
                    /\ t[4].ev = "exec" /\ t[4].cmd = IfUp(self.interfaces[1])
                    /\ (\A i \in 2..Len(E) : E[i].ok) =>
                          /\ Cmds(t) = SetupOrder(self, b)
                          /\ self.exc = "none"
                          /\ t[Len(t)].ev = "save"
              /\ \A i \in AbortingSteps(self) \cap 1..Len(E) :
                    ~E[i].ok =>
                        /\ i = Len(E)
                        /\ t[Len(t)] = E[i]
                        /\ self.exc = "ValueError"
                        /\ Saves(t) = <<>>

\* a setup whose killall failed and which went on until its bridge-create
\* failed
C15_Witness ==
    \E p \in Procs :
        LET E == Execs(sims[p].trace)
        IN /\ sims[p].acted = "setup" /\ sims[p].pc = "crashed"
           /\ Len(E) = Len(sims[p].interfaces) + 2
           /\ ~E[1].ok /\ ~E[Len(E)].ok
           /\ E[Len(E)].cmd = AddBr(get_bridge_id(sims[p]).value)
           /\ Warnings(sims[p].trace) # <<>>

\* C17: whenever a bridge created by a group's setup exists, the state file
\* maps every member of that group to the bridge's identifier.
C17_BridgeIdentityKept ==
    \A b \in devices :
        \A k \in Range(history.owner[b].interfaces) :
            /\ state_file.exists
            /\ k \in DOMAIN json_loads(state_file.text)
            /\ BridgeName(json_loads(state_file.text)[k]) = b

(***************************************************************************)
(* The state file written and read back (Spec).                            *)
(***************************************************************************)
\* the call p made has just saved its state
JustSaved(p) ==
    /\ Len(sims[p].trace) > 0
    /\ sims[p].trace[Len(sims[p].trace)].ev = "save"

\* C14: the file a save_state wrote, loaded, is the mapping saved; and an
\* object whose members are all keys of it, constructed on that file with
\* whatever draw, holds that mapping.
C14_SaveLoadRoundTrip ==
    \A p \in Procs :
        JustSaved(p) =>
            /\ state_file.exists
            /\ state_file.text = sims[p].trace[Len(sims[p].trace)].content
            /\ json_loads(state_file.text) = sims[p].state
            /\ Members(sims[p]) \subseteq DOMAIN sims[p].state =>
                  \A bridge_id \in BridgeIds :
                      read_state(sims[p], state_file, bridge_id).state = sims[p].state

\* a saved mapping with the entries of both groups, under two identifiers
C14_Witness ==
    \E p \in Procs :
        /\ JustSaved(p)
        /\ ~sims[p].show_only
        /\ DOMAIN sims[p].state = Range(AllInterfaces)
        /\ \E a, b \in DOMAIN sims[p].state : sims[p].state[a] # sims[p].state[b]

(***************************************************************************)
(* Groups sharing the state file, one invocation after the other (Spec).   *)
(***************************************************************************)
LoadedOf(file) == IF file.exists THEN json_loads(file.text) ELSE EmptyDict

\* the entries of the keys K are the same in the dicts d and e
SameEntries(d, e, K) ==
    \A k \in K : /\ k \in DOMAIN d <=> k \in DOMAIN e
                 /\ k \in DOMAIN d => d[k] = e[k]

GroupFrame ==
    \A p \in Procs :
        LET before == LoadedOf(state_file)
            after == LoadedOf(state_file')
            saved == Saves(sims'[p].trace) # <<>>
        IN /\ (Called(p, "setup") \/ Called(p, "teardown")) =>
                 /\ SameEntries(before, after, Range(AllInterfaces) \ Members(sims[p]))
                 /\ ~saved => state_file' = state_file
           /\ (Called(p, "setup") /\ saved) =>
                 \A k \in Members(sims[p]) :
                     k \in DOMAIN after /\ after[k] = sims'[p].state[k]
           /\ (Called(p, "teardown") /\ saved) =>
                 Members(sims[p]) \cap DOMAIN after = {}
           /\ (p = Main /\ ~Called(p, "setup") /\ ~Called(p, "teardown")) =>
                 state_file' = state_file

\* C16: with the invocations one after the other, a setup or teardown leaves
\* the file's entries of the interfaces of other groups as they were; the
\* entries of its own group change only when it runs to its save, a setup
\* leaving the identifiers it used and a teardown none; nothing else writes
\* the file.
C16_GroupsKeepOthersEntries == [][GroupFrame]_vars

\* a real teardown of one group has cleared its entries from a file that
\* still holds the other group's
C16_Witness ==
    \E p \in Procs :
        /\ sims[p].acted = "teardown" /\ ~sims[p].show_only
        /\ JustSaved(p)
        /\ Members(sims[p]) \cap DOMAIN LoadedOf(state_file) = {}
        /\ DOMAIN LoadedOf(state_file) # {}
        /\ devices # {}

(***************************************************************************)
(* Group consistency at construction (SpecStore).                          *)
(***************************************************************************)
\* C18: when the members that have an identifier in the loaded state all have
\* the same one, every member has one identifier after construction and
\* get_bridge_id returns it.
C18_ConstructionKeepsGroupConsistent ==
    \A p \in Procs :
        (/\ Constructed(p)
         /\ \A a, b \in Members(sims[p]) \cap DOMAIN Loaded : Loaded[a] = Loaded[b])
        => /\ \A a, b \in Members(sims[p]) : sims[p].state[a] = sims[p].state[b]
           /\ get_bridge_id(sims[p]).exc = "none"

(***************************************************************************)
(* The value of the bitmask (SpecBitmask).                                 *)
(***************************************************************************)
\* the 16 digits of the two groups, the first group the high half
Digits16(s) == SubSeq(s, 1, 8) \o SubSeq(s, 10, 17)

\* the 16 hexadecimal digits of 2^core: bit core % 4 of the digit core \div 4
\* from the right, zeros elsewhere
PowerOfTwo16(core) ==
    [i \in 1..16 |-> IF 16 - i = core \div 4
                     THEN HexDigits[2 ^ (core % 4) + 1]
                     ELSE "0"]

\* C19: the bitmask returned for a core is 2^core in 16 hexadecimal digits,
\* and no other accepted core has the same bitmask.
C19_BitmaskIsPowerOfTwo ==
    (calc.done /\ calc.result.exc = "none") =>
        /\ calc.core \div 4 < 16
        /\ Digits16(calc.result.value) = PowerOfTwo16(calc.core)
        /\ \A other \in (0..MaxCore) \ {calc.core} :
              corenum_to_bitmask(other).exc = "none" =>
                  corenum_to_bitmask(other).value # calc.result.value

(***************************************************************************)
(* Two invocations and no lock on the state file (SpecRace).               *)
(***************************************************************************)
\* an entry that a setup saved, and no teardown removed, is not in the file
\* or is there with another identifier
LostUpdate ==
    \E k \in DOMAIN history.persisted :
        \/ k \notin DOMAIN LoadedOf(state_file)
        \/ LoadedOf(state_file)[k] # history.persisted[k]

\* C20: an entry that a successful setup saved is lost from the file only when
\* two invocations overlapped; run one after the other they lose none.
C20_LostUpdateNeedsOverlap == LostUpdate => history.overlap

\* two invocations for disjoint groups, both set up, and the entries of one
\* lost from the file
C20_Witness ==
    /\ LostUpdate
    /\ \A p \in Procs : sims[p].acted = "setup" /\ sims[p].exc = "none"
    /\ \E p, q \in Procs :
          /\ Members(sims[p]) \cap Members(sims[q]) = {}
          /\ \A k \in Members(sims[p]) : k \notin DOMAIN LoadedOf(state_file)
          /\ \A k \in Members(sims[q]) : k \in DOMAIN LoadedOf(state_file)
          /\ BridgeName(get_bridge_id(sims[p]).value) \in devices

====
